---- MODULE Spec2Model ----
(***************************************************************************)
(* Model of adapter-party (src/src/main.rs): threads, adapters, chains,    *)
(* the exhaustive chain search make_chain and the sensitivity analysis     *)
(* find_useful_additions.                                                  *)
(*                                                                         *)
(* A Thread is a record [g, n]: g is the enum variant ("M" or "F"), n the  *)
(* name.  An Adapter is the tuple struct Adapter(Thread, Thread, Cow<str>) *)
(* as a 3-tuple <<.0, .1, .2>>, so a[1], a[2], a[3] are the source's       *)
(* self.0, self.1, self.2.  A label is a sequence of string pieces whose   *)
(* concatenation is the label; the piece REVERSED is the suffix            *)
(* " (reversed)" and no other piece ends with it.  A Chain is the Vec of   *)
(* its adapters.  A HashSet is a set; membership is decided by the         *)
(* element type's PartialEq.                                               *)
(***************************************************************************)
EXTENDS Integers, Sequences, FiniteSets, TLC

\* ---------------------------------------------------------------- bounds
\* Longest inventory handed to make_chain.
MaxEquip == 3
\* Longest inventory handed to find_useful_additions.
MaxAddEquip == 1

Names == {"A", "B", "C"}

\* ---------------------------------------------------------------- Thread
M(x) == [g |-> "M", n |-> x]
F(x) == [g |-> "F", n |-> x]

Threads == {M(x) : x \in Names} \cup {F(x) : x \in Names}

NIL_THREAD == M("nil")

opposite(t) == IF t.g = "M" THEN F(t.n) ELSE M(t.n)

\* #[derive(PartialOrd)]: the variants in their order of declaration, M
\* before F, then the names as strings (bytewise: "A" < "B" < "C" < "nil").
NameRank == [x \in {"A", "B", "C", "nil"} |->
                IF x = "A" THEN 1 ELSE IF x = "B" THEN 2 ELSE IF x = "C" THEN 3 ELSE 4]

ThreadLt(a, b) ==
    \/ a.g = "M" /\ b.g = "F"
    \/ a.g = b.g /\ NameRank[a.n] < NameRank[b.n]

\* #[derive(Hash)]: what a thread feeds to the hasher.
ThreadHash(t) == <<t.g, t.n>>

\* --------------------------------------------------------------- Adapter
REVERSED == " (reversed)"

AdapterNew(a, b) == <<a, b, <<>>>>

with_name(self, name) == <<self[1], self[2], name>>

\* Mutant: the marker is appended whether or not it is there already.
reverse_AlwaysAppend(self) ==
    LET name == IF self[3] = <<>> THEN self[3] ELSE Append(self[3], REVERSED)
    IN  <<self[2], self[1], name>>

reverse(self) ==
    LET name == IF self[3] = <<>> THEN self[3]
                ELSE IF self[3][Len(self[3])] = REVERSED
                     THEN SubSeq(self[3], 1, Len(self[3]) - 1)
                     ELSE Append(self[3], REVERSED)
    IN  <<self[2], self[1], name>>

\* impl PartialEq for Adapter: the label takes no part.
AdapterEq(self, other) ==
    \/ (self[1] = other[1] /\ self[2] = other[2])
    \/ (self[1] = other[2] /\ self[2] = other[1])

\* Mutant: the ends are hashed in the order they are stored in.
hash_AsStored(self) == ThreadHash(self[1]) \o ThreadHash(self[2])

\* impl Hash for Adapter: what an adapter feeds to the hasher.
hash(self) ==
    IF ThreadLt(self[1], self[2])
    THEN ThreadHash(self[1]) \o ThreadHash(self[2])
    ELSE ThreadHash(self[2]) \o ThreadHash(self[1])

\* HashSet<Adapter>::contains and ::insert: an element is found by its hash
\* and then compared with PartialEq.
contains(set, a) == \E u \in set : hash(u) = hash(a) /\ AdapterEq(u, a)

\* Mutant: the insertion is lost.
insert_Lost(set, a) == set

insert(set, a) == IF contains(set, a) THEN set ELSE set \cup {a}

\* impl Display for Thread and for Adapter: the pieces written, in order.
ThreadFmt(t) == <<t.n, IF t.g = "M" THEN "(M)" ELSE "(F)">>

AdapterFmt(self) ==
    IF self[3] # <<>> /\ self[1] # NIL_THREAD /\ self[2] # NIL_THREAD
    THEN self[3]
    ELSE (IF self[3] # <<>> THEN self[3] \o <<": ">> ELSE <<>>)
         \o (IF self[1] # NIL_THREAD
             THEN ThreadFmt(self[1]) \o (IF self[2] # NIL_THREAD THEN <<" -> ">> ELSE <<>>)
             ELSE <<>>)
         \o (IF self[2] # NIL_THREAD THEN ThreadFmt(self[2]) ELSE <<>>)

\* ----------------------------------------------------------------- Chain
None == <<>>

ChainNew(adapter) == <<adapter>>

\* Mutant: the reversed orientation is never tried.
add_NoReverse(self, next) ==
    LET last == self[Len(self)][2] IN
    IF last = opposite(next[1]) THEN Append(self, next)
    ELSE None

\* Mutant: the second branch is taken without its test.
add_Unchecked(self, next) ==
    LET last == self[Len(self)][2] IN
    IF last = opposite(next[1]) THEN Append(self, next)
    ELSE Append(self, reverse(next))

\* Mutant: an adapter that does not fit leaves the chain as it is.
add_KeepOnMisfit(self, next) ==
    LET last == self[Len(self)][2] IN
    IF last = opposite(next[1]) THEN Append(self, next)
    ELSE IF last = opposite(next[2]) THEN Append(self, reverse(next))
    ELSE self

\* Mutant: the two branches in the other order.
add_ReverseFirst(self, next) ==
    LET last == self[Len(self)][2] IN
    IF last = opposite(next[2]) THEN Append(self, reverse(next))
    ELSE IF last = opposite(next[1]) THEN Append(self, next)
    ELSE None

add(self, next) ==
    LET last == self[Len(self)][2] IN
    IF last = opposite(next[1]) THEN Append(self, next)
    ELSE IF last = opposite(next[2]) THEN Append(self, reverse(next))
    ELSE None

\* ------------------------------------------------------------ make_chain
\* Mutant: the start marker's ends are swapped.
StartMarker_Swapped(s) == with_name(AdapterNew(s, NIL_THREAD), <<"start">>)

StartMarker(s) == with_name(AdapterNew(NIL_THREAD, s), <<"start">>)
EndMarker(e) == with_name(AdapterNew(e, NIL_THREAD), <<"end">>)

InitialStates(s) == << [used |-> {}, chain |-> ChainNew(StartMarker(s))] >>

\* Lines 162-169: the extended chain is recorded when it reaches the end,
\* pushed for further extension otherwise.  st is the pair [states, found].
\* Mutant: the open end is compared with `end` itself.
Extend_NoOpposite(state, e, a, chain, st) ==
    IF chain[Len(chain)][2] = e
    THEN [st EXCEPT !.found = Append(@, Append(chain, EndMarker(e)))]
    ELSE [st EXCEPT !.states =
             Append(@, [used |-> insert(state.used, a), chain |-> chain])]

\* Mutant: a chain that reached the end is recorded and extended further.
Extend_PushToo(state, e, a, chain, st) ==
    LET pushed == [st EXCEPT !.states =
                      Append(@, [used |-> insert(state.used, a), chain |-> chain])]
    IN  IF opposite(chain[Len(chain)][2]) = e
        THEN [pushed EXCEPT !.found = Append(@, Append(chain, EndMarker(e)))]
        ELSE pushed

\* Mutant: the popped chain is pushed back in place of the extended one.
Extend_StaleChain(state, e, a, chain, st) ==
    IF opposite(chain[Len(chain)][2]) = e
    THEN [st EXCEPT !.found = Append(@, Append(chain, EndMarker(e)))]
    ELSE [st EXCEPT !.states =
             Append(@, [used |-> insert(state.used, a), chain |-> state.chain])]

Extend(state, e, a, chain, st) ==
    IF opposite(chain[Len(chain)][2]) = e
    THEN [st EXCEPT !.found = Append(@, Append(chain, EndMarker(e)))]
    ELSE [st EXCEPT !.states =
             Append(@, [used |-> insert(state.used, a), chain |-> chain])]

\* Mutant: both orientations are tried, `if .. if` for `if .. else if`.
RECURSIVE ForEquipment_BothBranches(_, _, _, _, _)
ForEquipment_BothBranches(state, e, equip, i, st) ==
    IF i > Len(equip) THEN st
    ELSE LET a == equip[i]
             last == state.chain[Len(state.chain)][2]
             st1 == IF last = opposite(a[1])
                    THEN Extend(state, e, a, Append(state.chain, a), st)
                    ELSE st
             st2 == IF last = opposite(a[2])
                    THEN Extend(state, e, a, Append(state.chain, reverse(a)), st1)
                    ELSE st1
         IN  ForEquipment_BothBranches(state, e, equip, i + 1,
                IF contains(state.used, a) THEN st ELSE st2)

\* The body of `for a in equipment`, for one popped state, from index i on.
RECURSIVE ForEquipment(_, _, _, _, _)
ForEquipment(state, e, equip, i, st) ==
    IF i > Len(equip) THEN st
    ELSE LET a == equip[i]
             chain == add(state.chain, a)
         IN  ForEquipment(state, e, equip, i + 1,
                IF contains(state.used, a) THEN st
                ELSE IF chain = None THEN st
                ELSE Extend(state, e, a, chain, st))

\* Mutant: a popped chain whose open end already mates with `end` is recorded.
WhileBody_CheckFirst(e, equip, st) ==
    LET state == st.states[Len(st.states)]
        rest == SubSeq(st.states, 1, Len(st.states) - 1)
        fnd == IF opposite(state.chain[Len(state.chain)][2]) = e
               THEN Append(st.found, Append(state.chain, EndMarker(e)))
               ELSE st.found
    IN  ForEquipment(state, e, equip, 1, [states |-> rest, found |-> fnd])

\* One iteration of `while let Some(state) = states.pop()`.
WhileBody(e, equip, st) ==
    LET state == st.states[Len(st.states)]
        rest == SubSeq(st.states, 1, Len(st.states) - 1)
    IN  ForEquipment(state, e, equip, 1, [st EXCEPT !.states = rest])

RECURSIVE WhileLoop(_, _, _)
WhileLoop(e, equip, st) ==
    IF st.states = <<>> THEN st.found
    ELSE WhileLoop(e, equip, WhileBody(e, equip, st))

make_chain(s, e, equip) ==
    WhileLoop(e, equip, [states |-> InitialStates(s), found |-> <<>>])

\* ------------------------------------------------------------- the state
VARIABLES
    equipment,               \* the caller's inventory
    start, end,              \* make_chain's other arguments
    states, found,           \* make_chain's locals
    pc,                      \* "loop": in the while loop; "done": returned
    all_threads,             \* find_useful_additions' locals; all_threads is
    all_adapters,            \*   kept in its iteration order
    base,                    \* its local `start`, the baseline count
    results, new_equip,
    todo,                    \* what `for new in &all_adapters` has yet to visit
    apc,                     \* "setup", "trials", "overflow", "done"
    visited,                 \* history: the states make_chain has popped so far
    px, py, plong,           \* the arguments of one call of a method
    pret,                    \* what the call returned
    ppc                      \* "ready", then the method that was called

mcvars == <<start, end, states, found, pc, visited>>
addvars == <<all_threads, all_adapters, base, results, new_equip, todo, apc>>
pvars == <<px, py, plong, pret, ppc>>
vars == <<equipment, mcvars, addvars, pvars>>

\* The method calls are idle while make_chain or find_useful_additions runs.
PureIdle ==
    /\ px = AdapterNew(NIL_THREAD, NIL_THREAD)
    /\ py = AdapterNew(NIL_THREAD, NIL_THREAD)
    /\ plong = FALSE
    /\ pret = None
    /\ ppc = "idle"

\* The adapters inventories are drawn from.
Pool ==
    { AdapterNew(M("A"), F("B")),
      AdapterNew(M("B"), F("C")),
      AdapterNew(F("B"), M("A")),
      AdapterNew(M("B"), F("B")),
      AdapterNew(M("A"), M("A")),
      AdapterNew(M("C"), F("B")),
      with_name(AdapterNew(M("A"), F("B")), <<"Lens">>) }

\* The adapters analysed inventories are drawn from: three threads, so at
\* most six candidate adapters.
AddPool ==
    { AdapterNew(M("A"), F("B")),
      AdapterNew(F("B"), M("A")),
      AdapterNew(M("B"), F("B")),
      AdapterNew(M("A"), M("A")) }

Inventories(pool, max) == UNION { [1..n -> pool] : n \in 0..max }

Init ==
    /\ start \in Threads
    /\ end \in Threads
    /\ equipment \in Inventories(Pool, MaxEquip)
    /\ states = InitialStates(start)
    /\ found = <<>>
    /\ pc = "loop"
    /\ all_threads = <<>>
    /\ all_adapters = {}
    /\ base = 0
    /\ results = <<>>
    /\ new_equip = <<>>
    /\ todo = {}
    /\ apc = "idle"
    /\ visited = <<>>
    /\ PureIdle

\* while let Some(state) = states.pop() { for a in equipment { ... } }
Pop ==
    /\ pc = "loop"
    /\ states # <<>>
    /\ LET st == WhileBody(end, equipment, [states |-> states, found |-> found])
       IN  /\ states' = st.states
           /\ found' = st.found
    /\ visited' = Append(visited, states[Len(states)])
    /\ UNCHANGED <<equipment, start, end, pc, addvars, pvars>>

\* The stack is empty: the loop ends and found is returned.
Return ==
    /\ pc = "loop"
    /\ states = <<>>
    /\ pc' = "done"
    /\ UNCHANGED <<equipment, start, end, states, found, visited, addvars, pvars>>

Next == Pop \/ Return

Spec == Init /\ [][Next]_vars

\* The program is sequential and runs on: a step that can be taken is taken.
FairSpec == Spec /\ WF_vars(Next)

\* ------------------------------------------------- find_useful_additions
\* The iteration orders a HashSet of the threads S can have.
Orders(S) ==
    { f \in [1..Cardinality(S) -> S] : \A i, j \in DOMAIN f : i # j => f[i] # f[j] }

\* The threads of the inventory, each mapped to its opposite.
AllThreads(equip) ==
    { opposite(equip[i][1]) : i \in 1..Len(equip) }
        \cup { opposite(equip[i][2]) : i \in 1..Len(equip) }

\* flat_map over all_threads x all_threads, collected into a HashSet<Adapter>:
\* the pairs arrive in the iteration order of all_threads, pair k of n * n.
RECURSIVE CollectAdapters(_, _, _)
CollectAdapters(order, k, set) ==
    LET n == Len(order) IN
    IF k > n * n THEN set
    ELSE CollectAdapters(order, k + 1,
            insert(set, AdapterNew(order[((k - 1) \div n) + 1], order[((k - 1) % n) + 1])))

\* Mutant: the pairs without a chain are the ones counted.
RECURSIVE count_chains_Inverted(_, _)
count_chains_Inverted(pairs, equip) ==
    IF pairs = {} THEN 0
    ELSE LET p == CHOOSE q \in pairs : TRUE
             count == Len(make_chain(p[1], p[2], equip))
         IN  (IF count = 0 THEN 1 ELSE 0) + count_chains_Inverted(pairs \ {p}, equip)

\* pairs.map(make_chain(..).len()).map(0 or 1).sum()
RECURSIVE count_chains(_, _)
count_chains(pairs, equip) ==
    IF pairs = {} THEN 0
    ELSE LET p == CHOOSE q \in pairs : TRUE
             count == Len(make_chain(p[1], p[2], equip))
         IN  (IF count = 0 THEN 0 ELSE 1) + count_chains(pairs \ {p}, equip)

PairsOf(adapters) == { <<a[1], a[2]>> : a \in adapters }

\* results.sort_by_key(|(_a, n)| *n): a stable sort, as an insertion of every
\* entry behind the entries whose key is not greater.
RECURSIVE InsertByKey(_, _)
InsertByKey(sorted, x) ==
    IF sorted = <<>> THEN <<x>>
    ELSE IF sorted[Len(sorted)][2] <= x[2] THEN Append(sorted, x)
    ELSE Append(InsertByKey(SubSeq(sorted, 1, Len(sorted) - 1), x), sorted[Len(sorted)])

RECURSIVE SortFrom(_, _, _)
SortFrom(list, i, sorted) ==
    IF i > Len(list) THEN sorted
    ELSE SortFrom(list, i + 1, InsertByKey(sorted, list[i]))

\* Mutant: the results are returned in the order they were computed.
sort_by_key_Skipped(list) == list

sort_by_key(list) == SortFrom(list, 1, <<>>)

\* Mutant: the trial adapter is left in the working copy.
PopBack_Forgotten(v) == v

\* new_equip.pop()
PopBack(v) == SubSeq(v, 1, Len(v) - 1)

AddInit ==
    /\ equipment \in Inventories(AddPool, MaxAddEquip)
    /\ start = NIL_THREAD
    /\ end = NIL_THREAD
    /\ states = <<>>
    /\ found = <<>>
    /\ pc = "idle"
    /\ visited = <<>>
    /\ PureIdle
    /\ all_threads = <<>>
    /\ all_adapters = {}
    /\ base = 0
    /\ results = <<>>
    /\ new_equip = <<>>
    /\ todo = {}
    /\ apc = "setup"

\* Lines 180-202: the vocabulary, the candidates, the baseline, the copy.
Setup ==
    /\ apc = "setup"
    /\ \E order \in Orders(AllThreads(equipment)) :
          LET cands == CollectAdapters(order, 1, {}) IN
          /\ all_threads' = order
          /\ all_adapters' = cands
          /\ base' = count_chains(PairsOf(cands), equipment)
          /\ todo' = cands
    /\ results' = <<>>
    /\ new_equip' = equipment
    /\ apc' = "trials"
    /\ UNCHANGED <<equipment, mcvars, pvars>>

\* One pass of `for new in &all_adapters`, in whatever order the set yields.
\* count - start on usize: a smaller count overflows (the build then panics
\* or wraps), which the model records as apc = "overflow".
Trial ==
    /\ apc = "trials"
    /\ \E new \in todo :
          LET pushed == Append(new_equip, new)
              count == count_chains(PairsOf(all_adapters), pushed)
          IN  /\ todo' = todo \ {new}
              /\ IF count >= base
                 THEN /\ results' = Append(results, <<new, count - base>>)
                      /\ new_equip' = PopBack(pushed)
                      /\ apc' = "trials"
                 ELSE /\ results' = results
                      /\ new_equip' = pushed
                      /\ apc' = "overflow"
    /\ UNCHANGED <<equipment, mcvars, pvars, all_threads, all_adapters, base>>

\* The loop is over: the results are sorted and returned.
SortReturn ==
    /\ apc = "trials"
    /\ todo = {}
    /\ results' = sort_by_key(results)
    /\ apc' = "done"
    /\ UNCHANGED <<equipment, mcvars, pvars, all_threads, all_adapters, base, new_equip, todo>>

AddNext == Setup \/ Trial \/ SortReturn

AddSpec == AddInit /\ [][AddNext]_vars

\* ------------------------------------------- single calls of the methods
\* The names, threads and labels the methods are called with.  "nil" is a
\* name like any other: a Thread is built from any &'static str.
PureNames == {"A", "B", "nil"}

PureThreads == {M(x) : x \in PureNames} \cup {F(x) : x \in PureNames}

Labels ==
    { <<>>, <<"Lens">>, <<"Lens", REVERSED>>, <<REVERSED>>,
      <<"Lens", REVERSED, REVERSED>> }

PureInit ==
    /\ px \in { <<a, b, l>> : a \in PureThreads, b \in PureThreads, l \in Labels }
    /\ py \in { <<a, b, l>> : a \in PureThreads, b \in PureThreads, l \in {<<>>, <<"Ring">>} }
    /\ plong \in BOOLEAN
    /\ pret = None
    /\ ppc = "ready"
    /\ equipment = <<>>
    /\ start = NIL_THREAD
    /\ end = NIL_THREAD
    /\ states = <<>>
    /\ found = <<>>
    /\ pc = "idle"
    /\ visited = <<>>
    /\ all_threads = <<>>
    /\ all_adapters = {}
    /\ base = 0
    /\ results = <<>>
    /\ new_equip = <<>>
    /\ todo = {}
    /\ apc = "idle"

\* px.reverse()
Reverse ==
    /\ ppc = "ready"
    /\ pret' = reverse(px)
    /\ ppc' = "reverse"
    /\ UNCHANGED <<equipment, mcvars, addvars, px, py, plong>>

\* px.reverse().reverse()
ReverseAgain ==
    /\ ppc = "reverse"
    /\ pret' = reverse(pret)
    /\ ppc' = "reverse2"
    /\ UNCHANGED <<equipment, mcvars, addvars, px, py, plong>>

\* px == py, the two hashes, and used.insert(px); used.contains(&py)
EqHash ==
    /\ ppc = "ready"
    /\ pret' = [eq |-> AdapterEq(px, py), hx |-> hash(px), hy |-> hash(py),
                 lookup |-> contains(insert({}, px), py)]
    /\ ppc' = "eqhash"
    /\ UNCHANGED <<equipment, mcvars, addvars, px, py, plong>>

\* The chain add() is called on: py alone, or py behind a start marker.
PChain == IF plong THEN <<StartMarker(opposite(py[1])), py>> ELSE ChainNew(py)

\* PChain.add(px)
AddCall ==
    /\ ppc = "ready"
    /\ pret' = add(PChain, px)
    /\ ppc' = "add"
    /\ UNCHANGED <<equipment, mcvars, addvars, px, py, plong>>

\* format!("{}", px)
Fmt ==
    /\ ppc = "ready"
    /\ pret' = AdapterFmt(px)
    /\ ppc' = "fmt"
    /\ UNCHANGED <<equipment, mcvars, addvars, px, py, plong>>

PureNext == Reverse \/ ReverseAgain \/ EqHash \/ AddCall \/ Fmt

PureSpec == PureInit /\ [][PureNext]_vars

\* ------------------------------------------------- reading a result chain
\* The inventory adapters of a returned chain: all but the two markers.
Real(chain) == SubSeq(chain, 2, Len(chain) - 1)

\* The two ends of every entry, in the stored orientation.
Ends(chain) == [i \in 1..Len(chain) |-> <<chain[i][1], chain[i][2]>>]

\* Every consecutive pair of entries mates.
Adjacent(chain) ==
    \A i \in 1..(Len(chain) - 1) : chain[i][2] = opposite(chain[i + 1][1])

\* The chains the completeness contract speaks of, as sequences of oriented
\* inventory pieces.  Pieces: every inventory adapter in both orientations.
\* Walks(.., k): the sequences of k pieces that start at start.opposite(),
\* mate at every joint and use no adapter twice (an adapter is who it is
\* under Adapter's equality, so no two entries are equal).
Pieces(equip) ==
    { equip[i] : i \in 1..Len(equip) } \cup { reverse(equip[i]) : i \in 1..Len(equip) }

RECURSIVE Walks(_, _, _)
Walks(s, equip, k) ==
    IF k = 1 THEN { <<x>> : x \in { y \in Pieces(equip) : y[1] = opposite(s) } }
    ELSE { Append(cx[1], cx[2]) :
             cx \in { dy \in Walks(s, equip, k - 1) \X Pieces(equip) :
                        /\ dy[1][k - 1][2] = opposite(dy[2][1])
                        /\ \A i \in 1..(k - 1) : ~AdapterEq(dy[1][i], dy[2]) } }

PieceChains(s, e, equip) ==
    { c \in UNION { Walks(s, equip, k) : k \in 1..Len(equip) } :
        c[Len(c)][2] = opposite(e) }

\* ... of which those that reach the end with their last adapter only.
SimpleChains(s, e, equip) ==
    { c \in PieceChains(s, e, equip) :
        \A i \in 1..(Len(c) - 1) : c[i][2] # opposite(e) }

Returned(c) == \E j \in 1..Len(found) : Ends(Real(found[j])) = Ends(c)

\* ------------------------------------------------------------------ C1
\* C1 as stated: make_chain returns every chain of one or more inventory
\* adapters, each used at most once, that starts at start.opposite(), mates
\* at every joint and ends at end.opposite(); none is missing.
C1_AsStated ==
    pc = "done" => \A c \in PieceChains(start, end, equipment) : Returned(c)

\* C1, amended: make_chain returns every such chain in which no adapter
\* before the last has a second end equal to end.opposite(): a branch ends
\* where it first reaches the end.
C1_Complete ==
    pc = "done" => \A c \in SimpleChains(start, end, equipment) : Returned(c)

\* A search that returned two or more chains, one of them through three
\* inventory adapters, one of them with a reversed piece.
C1_Witness ==
    /\ pc = "done"
    /\ Len(found) >= 2
    /\ \E c \in SimpleChains(start, end, equipment) :
          /\ Len(c) = 3
          /\ \E i \in 1..3 : \A k \in 1..Len(equipment) : Ends(<<c[i]>>) # Ends(<<equipment[k]>>)

\* ------------------------------------------------------------------ C2
Fixture == << AdapterNew(M("A"), F("B")), AdapterNew(M("B"), F("C")) >>

FixtureChain(s, e) == << StartMarker(s), Fixture[1], Fixture[2], EndMarker(e) >>

\* C2 as stated: with the fixture inventory, make_chain(F("A"), F("C"), ..)
\* returns exactly one chain, through both adapters in order.
C2_AsStated ==
    (pc = "done" /\ start = F("A") /\ end = F("C") /\ equipment = Fixture)
        => found = << FixtureChain(start, end) >>

\* C2, amended: it is make_chain(F("A"), M("C"), ..), whose end thread mates
\* with the last adapter's F("C"), that returns exactly that one chain.
C2_Fixture ==
    (pc = "done" /\ start = F("A") /\ end = M("C") /\ equipment = Fixture)
        => found = << FixtureChain(start, end) >>

C2_Witness ==
    pc = "done" /\ start = F("A") /\ end = M("C") /\ equipment = Fixture /\ Len(found) = 1

\* ------------------------------------------------------------------ C3
\* C3: in every returned chain no two non-boundary adapters are equal under
\* Adapter's unordered-pair equality, whatever the inventory lists.
C3_NoReuse ==
    \A j \in 1..Len(found) :
        \A i, k \in 2..(Len(found[j]) - 1) :
            i # k => ~AdapterEq(found[j][i], found[j][k])

\* A chain of two or more adapters returned from an inventory that lists
\* equal adapters twice.
C3_Witness ==
    /\ pc = "done"
    /\ \E i, k \in 1..Len(equipment) : i # k /\ AdapterEq(equipment[i], equipment[k])
    /\ \E j \in 1..Len(found) : Len(found[j]) >= 4

\* ------------------------------------------------------------------ C4
\* C4: every consecutive pair of entries of a returned chain, the markers
\* included, satisfies chain[i].1 == chain[i+1].0.opposite().
C4_Adjacency == \A j \in 1..Len(found) : Adjacent(found[j])

\* A returned chain holding a piece that add() reversed.
C4_Witness ==
    \E j \in 1..Len(found) :
        /\ Len(found[j]) >= 4
        /\ \E i \in 2..(Len(found[j]) - 1) :
              \A k \in 1..Len(equipment) : Ends(<<found[j][i]>>) # Ends(<<equipment[k]>>)

\* ------------------------------------------------------------------ C5
\* C5: every returned chain starts with the marker (NIL, start), ends with
\* the marker (end, NIL), its first real adapter's first end is
\* start.opposite() and its last real adapter's second end is end.opposite().
C5_Endpoints ==
    \A j \in 1..Len(found) :
        LET c == found[j] IN
        /\ Len(c) >= 3
        /\ Ends(<<c[1]>>) = << <<NIL_THREAD, start>> >>
        /\ Ends(<<c[Len(c)]>>) = << <<end, NIL_THREAD>> >>
        /\ c[2][1] = opposite(start)
        /\ c[Len(c) - 1][2] = opposite(end)

\* A returned chain whose first and last real adapters are different pieces.
C5_Witness ==
    pc = "done" /\ \E j \in 1..Len(found) : Len(found[j]) >= 4 /\ start # end

\* ------------------------------------------------------------------ C6
Degenerate(s, e) == << StartMarker(s), EndMarker(e) >>

\* C6 as stated: when start.opposite() == end the result includes the chain
\* of the two markers alone.
C6_AsStated ==
    (pc = "done" /\ opposite(start) = end)
        => \E j \in 1..Len(found) : found[j] = Degenerate(start, end)

\* C6, amended: also when start.opposite() == end the result never includes
\* the chain of the two markers alone; every returned chain holds at least
\* one inventory adapter.
C6_NoDegenerate ==
    \A j \in 1..Len(found) :
        found[j] # Degenerate(start, end) /\ Len(Real(found[j])) >= 1

\* start.opposite() == end, and the search returned chains.
C6_Witness == pc = "done" /\ opposite(start) = end /\ found # <<>>

\* ------------------------------------------------------------------ C7
\* C7: with an empty inventory make_chain returns an empty list, also when
\* start.opposite() == end.
C7_EmptyInventory == (pc = "done" /\ equipment = <<>>) => found = <<>>

C7_Witness == pc = "done" /\ equipment = <<>> /\ opposite(start) = end

\* ------------------------------------------------------------------ C8
NoRepeat(list) == \A i, j \in 1..Len(list) : i # j => list[i] # list[j]

Distinct(equip) ==
    \A i, j \in 1..Len(equip) : i # j => ~AdapterEq(equip[i], equip[j])

\* C8 as stated: the result never holds the same chain twice, for any
\* inventory, one that lists equal adapters more than once included.
C8_AsStated == pc = "done" => NoRepeat(found)

\* C8, amended: the result never holds the same chain twice when no two
\* entries of the inventory are equal adapters.
C8_NoRepeat == Distinct(equipment) => NoRepeat(found)

\* Several chains returned from an inventory of three different adapters.
C8_Witness ==
    pc = "done" /\ Distinct(equipment) /\ Len(equipment) = 3 /\ Len(found) >= 2

\* ------------------------------------------------------------------ C9
\* C9: for every inventory and every candidate, the count of reachable pairs
\* with the candidate added is at least the baseline: count - start never
\* underflows and every marginal count is >= 0.
C9_NoUnderflow ==
    /\ apc # "overflow"
    /\ \A i \in 1..Len(results) : results[i][2] >= 0
    /\ apc = "done" =>
          \A new \in all_adapters :
              count_chains(PairsOf(all_adapters), Append(equipment, new)) >= base

\* An analysis with a reachable pair in the baseline, a candidate that adds
\* reachable pairs and a candidate that adds none.
C9_Witness ==
    /\ apc = "done"
    /\ base > 0
    /\ \E i, j \in 1..Len(results) : results[i][2] > 0 /\ results[j][2] = 0

\* ----------------------------------------------------------------- C10
\* C10: the returned sequence is non-decreasing in its count field.
C10_Sorted ==
    apc = "done" =>
        \A i \in 1..(Len(results) - 1) : results[i][2] <= results[i + 1][2]

\* A returned sequence of three candidates whose counts differ.
C10_Witness ==
    /\ apc = "done"
    /\ Len(results) = 3
    /\ results[1][2] < results[3][2]

\* ----------------------------------------------------------------- C11
\* C11 as stated: for every adapter, whatever its label,
\* adapter.reverse().reverse() has the same two ends in the same order and
\* exactly the original label.
C11_AsStated == ppc = "reverse2" => pret = px

\* The labels reverse() toggles: the empty label, and a non-empty label that,
\* with one trailing " (reversed)" taken off if it has one, is non-empty and
\* does not end with " (reversed)".
Stem(label) ==
    IF label # <<>> /\ label[Len(label)] = REVERSED
    THEN SubSeq(label, 1, Len(label) - 1)
    ELSE label

Togglable(label) ==
    \/ label = <<>>
    \/ Stem(label) # <<>> /\ Stem(label)[Len(Stem(label))] # REVERSED

\* C11, amended: the round trip restores the ends and the label of every
\* adapter whose label is empty or toggles.
C11_RoundTrip == (ppc = "reverse2" /\ Togglable(px[3])) => pret = px

\* A labelled adapter with two different ends, reversed twice, once from a
\* label that carries the marker.
C11_Witness ==
    /\ ppc = "reverse2"
    /\ px[1] # px[2]
    /\ px[3] = <<"Lens", REVERSED>>

\* ----------------------------------------------------------------- C12
\* C12: Adapter(a,b) == Adapter(b,a) whatever the labels, both feed the
\* hasher the same sequence, and a set holding one of them is found to
\* contain the other; equal adapters always hash alike.
C12_Symmetric ==
    ppc = "eqhash" =>
        /\ (py[1] = px[2] /\ py[2] = px[1]) =>
              pret.eq /\ pret.hx = pret.hy /\ pret.lookup
        /\ pret.eq => pret.hx = pret.hy

\* An adapter with two different ends compared with its mirror image under
\* another label.
C12_Witness ==
    /\ ppc = "eqhash"
    /\ py[1] = px[2] /\ py[2] = px[1]
    /\ px[1] # px[2]
    /\ px[3] # py[3]
    /\ ThreadLt(px[2], px[1])

\* ----------------------------------------------------------------- C13
\* C13: with last the chain's open end, add returns the chain with the
\* candidate appended as it is when last == candidate.0.opposite();
\* otherwise, when last == candidate.1.opposite(), the chain with the
\* reversed candidate appended, whose open end is candidate.0; otherwise
\* nothing.  Both tests pass only for a candidate with two equal ends, and
\* then the candidate is appended as it is.
C13_Add ==
    ppc = "add" =>
        LET last == py[2]
            fitsA == last = opposite(px[1])
            fitsB == last = opposite(px[2])
        IN  /\ fitsA => pret = PChain \o <<px>>
            /\ (~fitsA /\ fitsB) =>
                  /\ Len(pret) = Len(PChain) + 1
                  /\ SubSeq(pret, 1, Len(PChain)) = PChain
                  /\ pret[Len(pret)] = reverse(px)
                  /\ pret[Len(pret)][1] = px[2]
                  /\ pret[Len(pret)][2] = px[1]
            /\ (~fitsA /\ ~fitsB) => pret = None
            /\ (fitsA /\ fitsB) => px[1] = px[2]

\* A labelled candidate with two equal ends that fits a two-entry chain.
C13_Witness ==
    /\ ppc = "add"
    /\ plong
    /\ px[1] = px[2]
    /\ px[3] = <<"Lens">>
    /\ py[2] = opposite(px[1])
    /\ pret # None

\* ----------------------------------------------------------------- C14
\* The open end of a search state: the second end of its chain's last entry.
OpenEnd(state) == state.chain[Len(state.chain)][2]

\* C14 as stated: no two states taken from the stack have both the same
\* used-set and the same open end.
C14_AsStated ==
    \A i, j \in 1..Len(visited) :
        i # j => ~(/\ visited[i].used = visited[j].used
                   /\ OpenEnd(visited[i]) = OpenEnd(visited[j]))

\* C14, amended: on an inventory that lists no two equal adapters, no two
\* states taken from the stack have the same chain.
C14_NoBranchTwice ==
    Distinct(equipment) =>
        \A i, j \in 1..Len(visited) : i # j => visited[i].chain # visited[j].chain

\* Two orders of the same adapters, both taken from the stack: the same
\* used-set and the same open end, and no equal adapters in the inventory.
C14_Witness ==
    /\ Distinct(equipment)
    /\ \E i, j \in 1..Len(visited) :
          /\ i # j
          /\ visited[i].used = visited[j].used
          /\ OpenEnd(visited[i]) = OpenEnd(visited[j])

\* ----------------------------------------------------------------- C15
\* Every state pushed by one iteration has a used-set strictly larger than
\* the popped state's, made of inventory adapters.
UsedGrows ==
    (pc = "loop" /\ states # <<>>) =>
        \A k \in Len(states)..Len(states') :
            /\ states[Len(states)].used \subseteq states'[k].used
            /\ states[Len(states)].used # states'[k].used
            /\ \A u \in states'[k].used : \E i \in 1..Len(equipment) : u = equipment[i]

\* C15: make_chain terminates: the stack becomes empty and the result is
\* returned, every pushed state having a strictly larger used-set, bounded
\* by the inventory, than the state it was derived from.
C15_Terminates == <>(pc = "done") /\ [][UsedGrows]_vars

\* A search that took seven or more states from its stack and returned.
C15_Witness == pc = "done" /\ Len(visited) >= 7 /\ Len(equipment) = 3

\* ----------------------------------------------------------------- C16
\* Between trials the working copy is the caller's inventory, and the count
\* just recorded is that of the inventory plus the one candidate.
TrialsApart ==
    apc \in {"trials", "done"} =>
        /\ new_equip = equipment
        /\ (apc = "trials" /\ results # <<>>) =>
              LET last == results[Len(results)] IN
              last[2] = count_chains(PairsOf(all_adapters), Append(equipment, last[1])) - base

\* C16: every candidate is counted against the original inventory plus that
\* one candidate; after every trial the working copy equals the original
\* inventory, and the caller's inventory is never modified.
C16_Frame == []TrialsApart /\ [][equipment' = equipment]_vars

\* An analysis of a non-empty inventory that ran three trials, one of which
\* added reachable pairs.
C16_Witness ==
    /\ apc = "done"
    /\ equipment # <<>>
    /\ Len(results) = 3
    /\ \E i \in 1..3 : results[i][2] > 0

\* ----------------------------------------------------------------- C17
\* C17: the NIL sentinel differs from every thread M(name) / F(name) that an
\* adapter can carry, for every name: an adapter built from two threads has
\* no end equal to NIL, and an unlabelled one is printed with both its ends.
C17_NilApart ==
    ppc = "fmt" =>
        /\ px[1] # NIL_THREAD /\ px[2] # NIL_THREAD
        /\ px[3] = <<>> => pret = ThreadFmt(px[1]) \o <<" -> ">> \o ThreadFmt(px[2])

\* ----------------------------------------------------------------- C18
\* C18: in every returned chain the last real adapter is the only real
\* adapter whose second end equals end.opposite(): a branch is completed
\* the first time it reaches the end and is not extended past it.
C18_FirstArrival ==
    \A j \in 1..Len(found) :
        \A i \in 2..(Len(found[j]) - 1) :
            (found[j][i][2] = opposite(end)) <=> (i = Len(found[j]) - 1)

\* A returned chain of two or more adapters, from an inventory that also
\* offers a longer chain through the end.
C18_Witness ==
    /\ pc = "done"
    /\ \E j \in 1..Len(found) : Len(found[j]) >= 4
    /\ PieceChains(start, end, equipment) # SimpleChains(start, end, equipment)

\* ----------------------------------------------------------------- C19
\* C19: reachability is symmetric: make_chain(a, b, inventory) is non-empty
\* exactly when make_chain(b, a, inventory) is, so a pair counts the same in
\* count_chains whichever of its two orientations is stored.
C19_Symmetric ==
    pc = "done" =>
        /\ (found # <<>>) <=> (make_chain(end, start, equipment) # <<>>)
        /\ count_chains({<<start, end>>}, equipment)
              = count_chains({<<end, start>>}, equipment)

\* A pair of different threads joined by a chain of two or more adapters,
\* one of them reversed.
C19_Witness ==
    /\ pc = "done"
    /\ start # end
    /\ opposite(start) # end
    /\ \E j \in 1..Len(found) :
          /\ Len(found[j]) >= 4
          /\ \E i \in 2..(Len(found[j]) - 1) :
                \A k \in 1..Len(equipment) : Ends(<<found[j][i]>>) # Ends(<<equipment[k]>>)

\* ----------------------------------------------------------------- C20
\* C20: every state on the stack has a chain made of the start marker
\* followed by exactly the adapters of its used-set, each once (so the
\* chain's length is |used| + 1), mating at every joint, with no end marker.
StateShape(state) ==
    /\ Len(state.chain) = Cardinality(state.used) + 1
    /\ state.chain[1] = StartMarker(start)
    /\ \A i \in 2..Len(state.chain) : \E u \in state.used : AdapterEq(u, state.chain[i])
    /\ \A u \in state.used :
          Cardinality({ i \in 2..Len(state.chain) : AdapterEq(u, state.chain[i]) }) = 1
    /\ Adjacent(state.chain)
    /\ \A i \in 1..Len(state.chain) :
          state.chain[i] # EndMarker(end) /\ state.chain[i][3] # <<"end">>

C20_StackShape == \A k \in 1..Len(states) : StateShape(states[k])

\* A stack of two or more states, one of them three adapters deep.
C20_Witness ==
    /\ Len(states) >= 2
    /\ \E k \in 1..Len(states) : Cardinality(states[k].used) = 3

====
